---- MODULE Spec2Model ----
(***************************************************************************)
(* A model of Logic/Environment.py: the Interpreter of uArmCreatorStudio.  *)
(* The controller (GUI/API side) calls loadScript, startThread and         *)
(* endThread; the worker thread runs __programThread, which walks the      *)
(* events at every tick and hands the active ones to __interpretEvent.     *)
(* Indices into a commandList are 0-based as in the source; a TLA+         *)
(* sequence s is read at s[i + 1].                                         *)
(***************************************************************************)
EXTENDS Integers, Sequences, FiniteSets, TLC

VARIABLES
    mainThread,       \* Interpreter.mainThread: "None" or "Thread"
    exiting,          \* Interpreter.__exiting
    events,           \* Interpreter.events
    currRunning,      \* Interpreter.currRunning: eventIndex -> executed command indices
    variables,        \* Interpreter.__variables: name -> value
    robotExiting,     \* the flag robot.setExiting() writes
    visionExiting,    \* the flag vision.setExiting() writes
    robotServos,      \* what robot.setActiveServos() last set
    robotSpeed,       \* what robot.setSpeed() last set
    liveWorkers,      \* number of worker threads that were started and have not terminated
    wpc,              \* where the worker is inside __programThread / __interpretEvent
    evIdx,            \* __programThread: position of the for loop over self.events
    eventIndex,       \* __interpretEvent: eventIndex
    index,            \* __interpretEvent: index
    overrideKillApp,  \* __interpretEvent: overrideKillApp
    evaluation,       \* __interpretEvent: evaluation, the outcome of the last command.run()
    cpc,              \* where the controller is: "idle", or "join" inside endThread
    stopRet,          \* what the last endThread call returned
    loadRet,          \* how the last loadScript call ended
    lastMsg,          \* the last line the interpreter logged through printf
    getRet            \* what the last getVariable call returned, and for which name

vars ==
    <<mainThread, exiting, events, currRunning, variables, robotExiting, visionExiting,
      robotServos, robotSpeed, liveWorkers, wpc, evIdx, eventIndex, index,
      overrideKillApp, evaluation, cpc, stopRet, loadRet, lastMsg, getRet>>

interpVars ==
    <<mainThread, exiting, events, currRunning, variables>>

robotVars ==
    <<robotExiting, visionExiting, robotServos, robotSpeed>>

workerVars ==
    <<wpc, evIdx, eventIndex, index, overrideKillApp, evaluation>>

(***************************************************************************)
(* Bounds of the model.                                                    *)
(***************************************************************************)
MaxEvents ==
    2

MaxLen ==
    5

MaxBody ==
    2

(***************************************************************************)
(* Values, commands and events.                                            *)
(***************************************************************************)
\* The outcome of command.run(): "Exit", False (Skip) or anything else (Continue).
Outcomes ==
    {"Continue", "Skip", "Exit"}

Num(n) ==
    [kind |-> "num", val |-> n]

NoneVal ==
    [kind |-> "None", val |-> 0]

Ref(name) ==
    [kind |-> name, val |-> 0]

\* A command object: its class and the outcomes its run() can produce.
Command(typeLogic, parameters) ==
    [type |-> typeLogic, outcomes |-> parameters]

\* An event object: its class and its commandList.
Event(typeLogic, commandList) ==
    [type |-> typeLogic, commandList |-> commandList]

\* The classes getattr(Commands, tag) and getattr(Events, tag) resolve.
CommandTypes ==
    {"Command", "StartBlockCommand", "EndBlockCommand", "ElseCommand"}

EventTypes ==
    {"InitEvent", "DestroyEvent"}

StartBlock ==
    Command("StartBlockCommand", {"Continue"})

EndBlock ==
    Command("EndBlockCommand", {"Continue"})

Else ==
    Command("ElseCommand", {"Continue"})

(***************************************************************************)
(* VariableStore: setVariable, getVariable, evaluateExpression.            *)
(***************************************************************************)
\* The names the commands of a script assign.
Names ==
    {"x"}

\* "1+1" evaluates to 2, "1/0" raises, "x" and "pi" are looked up in the store.
Expressions ==
    {"1+1", "1/0", "x", "pi"}

safeList ==
    {"math", "acos", "asin", "atan", "atan2", "ceil", "cos", "cosh", "degrees",
     "e", "exp", "fabs", "floor", "fmod", "frexp", "hypot", "ldexp", "log", "log10",
     "modf", "pi", "pow", "radians", "sin", "sinh", "sqrt", "tan", "tanh"}

\* What endThread rebuilds: every safeList name bound to locals().get(k, None),
\* which is None for all of them, then abs, robot and vision.
DefaultVariables ==
    [k \in safeList \cup {"abs", "robot", "vision"} |->
        IF k \in safeList THEN NoneVal ELSE Ref(k)]

\* Whether eval(expression, {"__builtins__": None}, store) raises: a division
\* by zero, or the lookup of a name the store does not bind.
crashes(expression, store) ==
    \/ expression = "1/0"
    \/ expression \in {"x", "pi"} /\ expression \notin DOMAIN store

\* eval(expression, {"__builtins__": None}, store) inside try/except.
evaluateExpression(expression, store) ==
    LET answer ==
            IF expression = "1+1" THEN Num(2)
            ELSE IF expression \in DOMAIN store THEN store[expression]
            ELSE NoneVal
    IN  IF crashes(expression, store) \/ answer = NoneVal
        THEN [value |-> NoneVal, success |-> FALSE]
        ELSE [value |-> answer, success |-> TRUE]

\* Lines 251-252: the store with name bound, to 0 if it was not.
withDefault(name, store) ==
    IF name \in DOMAIN store THEN store ELSE (name :> Num(0)) @@ store

setVariable(name, expression, store) ==
    LET created == withDefault(name, store)
        result  == evaluateExpression(expression, created)
    IN  [created EXCEPT ![name] = result.value]

getVariable(name, store) ==
    IF name \notin DOMAIN store
    THEN [value |-> Num(0), success |-> FALSE]
    ELSE [value |-> store[name], success |-> TRUE]

\* No getVariable call has returned yet.
NoRet ==
    [name |-> "-", value |-> NoneVal, success |-> FALSE]

(***************************************************************************)
(* isRunning, isExiting, getStatus.                                        *)
(***************************************************************************)
isRunning ==
    ~exiting \/ mainThread # "None"

isExiting ==
    exiting

\* False while exiting, else the currRunning mapping.
getStatus ==
    IF isExiting
    THEN [isFalse |-> TRUE, status |-> <<>>]
    ELSE [isFalse |-> FALSE, status |-> currRunning]

(***************************************************************************)
(* __getNextIndex: the forward scan over the flat command list.            *)
(***************************************************************************)
RECURSIVE ScanLoop(_, _, _, _)
\* The body of "for i in range(index + 1, len(commandList))" at i, with the
\* value nextIndent has on entry; index is returned when the range is exhausted.
ScanLoop(i, nextIndent, index_, commandList) ==
    IF i >= Len(commandList) THEN index_
    ELSE
        LET indent == IF commandList[i + 1].type = "StartBlockCommand"
                      THEN nextIndent + 1 ELSE nextIndent
        IN  IF indent = 0 THEN i - 1
            ELSE IF i = Len(commandList) - 1 THEN i
            ELSE ScanLoop(i + 1,
                          IF commandList[i + 1].type = "EndBlockCommand"
                          THEN indent - 1 ELSE indent,
                          index_, commandList)

RECURSIVE ScanLoopLate(_, _, _, _)
\* The scan with "index = i" where the source has "index = i - 1".
ScanLoopLate(i, nextIndent, index_, commandList) ==
    IF i >= Len(commandList) THEN index_
    ELSE
        LET indent == IF commandList[i + 1].type = "StartBlockCommand"
                      THEN nextIndent + 1 ELSE nextIndent
        IN  IF indent = 0 THEN i
            ELSE IF i = Len(commandList) - 1 THEN i
            ELSE ScanLoopLate(i + 1,
                              IF commandList[i + 1].type = "EndBlockCommand"
                              THEN indent - 1 ELSE indent,
                              index_, commandList)

getNextIndexLate(index_, commandList) ==
    ScanLoopLate(index_ + 1, 0, index_, commandList)

\* __getNextIndex whose scan starts at the command itself, not after it.
getNextIndexFromSelf(index_, commandList) ==
    ScanLoop(index_, 0, index_, commandList)

getNextIndex(index_, commandList) ==
    ScanLoop(index_ + 1, 0, index_, commandList)

\* Lines 362-372: the cursor after the command at index_ returned evaluation_.
nextCursor(index_, evaluation_, commandList) ==
    IF evaluation_ = "Skip"
    THEN getNextIndex(index_, commandList) + 1
    ELSE IF index_ + 1 < Len(commandList)
            /\ commandList[index_ + 2].type = "ElseCommand"
         THEN getNextIndex(index_ + 1, commandList) + 1
         ELSE index_ + 1

(***************************************************************************)
(* loadScript.                                                             *)
(***************************************************************************)
CommandSave(typeLogic, parameters) ==
    [typeLogic |-> typeLogic, parameters |-> parameters]

EventSave(typeLogic, commandList) ==
    [typeLogic |-> typeLogic, commandList |-> commandList]

RECURSIVE loadCommands(_)
\* The inner loop of loadScript: the commands attached to the event, and whether
\* getattr(Commands, tag) raised on the way (the loop stops there).
loadCommands(commandSaves) ==
    IF commandSaves = <<>> THEN [commands |-> <<>>, raised |-> FALSE]
    ELSE IF Head(commandSaves).typeLogic \notin CommandTypes
    THEN [commands |-> <<>>, raised |-> TRUE]
    ELSE LET rest == loadCommands(Tail(commandSaves))
         IN  [commands |-> <<Command(Head(commandSaves).typeLogic,
                                     Head(commandSaves).parameters)>> \o rest.commands,
              raised   |-> rest.raised]

RECURSIVE loadEvents(_)
\* The outer loop of loadScript: the events appended to self.events, and whether
\* a getattr raised (the events appended before it stay appended).
loadEvents(script) ==
    IF script = <<>> THEN [events |-> <<>>, raised |-> FALSE]
    ELSE IF Head(script).typeLogic \notin EventTypes
    THEN [events |-> <<>>, raised |-> TRUE]
    ELSE LET loaded == loadCommands(Head(script).commandList)
             event  == Event(Head(script).typeLogic, loaded.commands)
             rest   == IF loaded.raised THEN [events |-> <<>>, raised |-> TRUE]
                       ELSE loadEvents(Tail(script))
         IN  [events |-> <<event>> \o rest.events, raised |-> rest.raised]

\* The scripts the controller loads.
Scripts ==
    { <<EventSave("InitEvent", <<CommandSave("Command", {"Continue", "Skip"}),
                                 CommandSave("StartBlockCommand", {"Continue"}),
                                 CommandSave("Command", Outcomes),
                                 CommandSave("EndBlockCommand", {"Continue"})>>)>>,
      <<EventSave("InitEvent", <<CommandSave("Command", {"Continue", "Exit"}),
                                 CommandSave("Command", {"Continue"})>>),
        EventSave("DestroyEvent", <<CommandSave("Command", {"Continue"})>>)>>,
      <<EventSave("NoSuchEvent", <<>>)>> }

LoadScript(script) ==
    /\ cpc = "idle"
    /\ Len(events) + Len(script) <= MaxEvents
    /\ LET loaded == loadEvents(script)
       IN  /\ events' = events \o loaded.events
           /\ loadRet' = IF loaded.raised THEN "raised" ELSE "returned"
           /\ lastMsg' = IF loaded.raised THEN lastMsg ELSE "loadScript errors"
    /\ UNCHANGED <<mainThread, exiting, currRunning, variables, robotVars,
                   liveWorkers, workerVars, cpc, stopRet>>
    /\ UNCHANGED getRet

(***************************************************************************)
(* startThread and endThread.                                              *)
(***************************************************************************)
DefaultSpeed ==
    10

\* startThread without the test of self.mainThread.
StartThreadUnguarded ==
    /\ cpc = "idle"
    /\ visionExiting' = FALSE
    /\ robotExiting' = FALSE
    /\ robotServos' = "all"
    /\ robotSpeed' = DefaultSpeed
    /\ exiting' = FALSE
    /\ mainThread' = "Thread"
    /\ currRunning' = <<>>
    /\ liveWorkers' = liveWorkers + 1
    /\ wpc' = "loop"
    /\ evIdx' = 0
    /\ eventIndex' = 0
    /\ index' = 0
    /\ overrideKillApp' = FALSE
    /\ evaluation' = "-"
    /\ UNCHANGED <<events, variables, cpc, stopRet, loadRet, lastMsg>>
    /\ UNCHANGED getRet

\* startThread clearing __exiting before the test of self.mainThread.
StartThreadClearsFirst ==
    /\ cpc = "idle"
    /\ exiting' = FALSE
    /\ IF mainThread = "None"
       THEN /\ visionExiting' = FALSE
            /\ robotExiting' = FALSE
            /\ robotServos' = "all"
            /\ robotSpeed' = DefaultSpeed
            /\ mainThread' = "Thread"
            /\ currRunning' = <<>>
            /\ liveWorkers' = liveWorkers + 1
            /\ wpc' = "loop"
            /\ evIdx' = 0
            /\ eventIndex' = 0
            /\ index' = 0
            /\ overrideKillApp' = FALSE
            /\ evaluation' = "-"
            /\ UNCHANGED lastMsg
       ELSE /\ lastMsg' = "startThread: already running"
            /\ UNCHANGED <<mainThread, currRunning, robotVars, liveWorkers, workerVars>>
    /\ UNCHANGED <<events, variables, cpc, stopRet, loadRet>>
    /\ UNCHANGED getRet

StartThread ==
    /\ cpc = "idle"
    /\ IF mainThread = "None"
       THEN /\ visionExiting' = FALSE
            /\ robotExiting' = FALSE
            /\ robotServos' = "all"
            /\ robotSpeed' = DefaultSpeed
            /\ exiting' = FALSE
            /\ mainThread' = "Thread"
            /\ currRunning' = <<>>
            /\ liveWorkers' = liveWorkers + 1
            /\ wpc' = "loop"
            /\ evIdx' = 0
            /\ eventIndex' = 0
            /\ index' = 0
            /\ overrideKillApp' = FALSE
            /\ evaluation' = "-"
            /\ UNCHANGED lastMsg
       ELSE /\ lastMsg' = "startThread: already running"
            /\ UNCHANGED <<mainThread, exiting, currRunning, robotVars, liveWorkers,
                           workerVars>>
    /\ UNCHANGED <<events, variables, cpc, stopRet, loadRet>>
    /\ UNCHANGED getRet

\* endThread that signals the robot and the vision before it looks for a worker.
EndThreadSignalFlagsFirst ==
    /\ cpc = "idle"
    /\ lastMsg' = "endThread: closing"
    /\ exiting' = TRUE
    /\ visionExiting' = TRUE
    /\ robotExiting' = TRUE
    /\ IF mainThread # "None"
       THEN /\ cpc' = "join"
            /\ UNCHANGED stopRet
       ELSE /\ stopRet' = "None"
            /\ UNCHANGED cpc
    /\ UNCHANGED <<mainThread, events, currRunning, variables, robotServos, robotSpeed,
                   liveWorkers, workerVars, loadRet>>
    /\ UNCHANGED getRet

\* Lines 171-180: up to the call of join.
EndThreadSignal ==
    /\ cpc = "idle"
    /\ lastMsg' = "endThread: closing"
    /\ exiting' = TRUE
    /\ IF mainThread # "None"
       THEN /\ visionExiting' = TRUE
            /\ robotExiting' = TRUE
            /\ cpc' = "join"
            /\ UNCHANGED stopRet
       ELSE /\ stopRet' = "None"
            /\ UNCHANGED <<visionExiting, robotExiting, cpc>>
    /\ UNCHANGED <<mainThread, events, currRunning, variables, robotServos, robotSpeed,
                   liveWorkers, workerVars, loadRet>>
    /\ UNCHANGED getRet

\* endThread whose cleanup forgets to rebuild __variables.
EndThreadJoinKeepsVariables ==
    /\ cpc = "join"
    /\ cpc' = "idle"
    /\ IF wpc # "done"
       THEN /\ lastMsg' = "endThread: did not close"
            /\ stopRet' = "False"
            /\ UNCHANGED <<mainThread, events, variables, robotVars, wpc>>
       ELSE /\ visionExiting' = FALSE
            /\ robotExiting' = FALSE
            /\ mainThread' = "None"
            /\ events' = <<>>
            /\ stopRet' = "True"
            /\ wpc' = "none"
            /\ UNCHANGED <<variables, robotServos, robotSpeed, lastMsg>>
    /\ UNCHANGED <<exiting, currRunning, liveWorkers, evIdx, eventIndex, index,
                   overrideKillApp, evaluation, loadRet>>
    /\ UNCHANGED getRet

\* endThread that re-activates robot and vision before the is_alive() test.
EndThreadJoinReactivatesEarly ==
    /\ cpc = "join"
    /\ cpc' = "idle"
    /\ visionExiting' = FALSE
    /\ robotExiting' = FALSE
    /\ IF wpc # "done"
       THEN /\ lastMsg' = "endThread: did not close"
            /\ stopRet' = "False"
            /\ UNCHANGED <<mainThread, events, variables, wpc>>
       ELSE /\ mainThread' = "None"
            /\ events' = <<>>
            /\ variables' = DefaultVariables
            /\ stopRet' = "True"
            /\ wpc' = "none"
            /\ UNCHANGED lastMsg
    /\ UNCHANGED <<exiting, currRunning, liveWorkers, evIdx, eventIndex, index,
                   overrideKillApp, evaluation, loadRet, robotServos, robotSpeed>>
    /\ UNCHANGED getRet

\* Lines 180-212: join returns (the worker ended, or the timeout ran out) and
\* is_alive() decides between the failure and the cleanup.
EndThreadJoin ==
    /\ cpc = "join"
    /\ cpc' = "idle"
    /\ IF wpc # "done"
       THEN /\ lastMsg' = "endThread: did not close"
            /\ stopRet' = "False"
            /\ UNCHANGED <<mainThread, events, variables, robotVars, wpc>>
       ELSE /\ visionExiting' = FALSE
            /\ robotExiting' = FALSE
            /\ mainThread' = "None"
            /\ events' = <<>>
            /\ variables' = DefaultVariables
            /\ stopRet' = "True"
            /\ wpc' = "none"
            /\ UNCHANGED <<robotServos, robotSpeed, lastMsg>>
    /\ UNCHANGED <<exiting, currRunning, liveWorkers, evIdx, eventIndex, index,
                   overrideKillApp, evaluation, loadRet>>
    /\ UNCHANGED getRet

(***************************************************************************)
(* __programThread: the worker.                                            *)
(***************************************************************************)
\* A worker whose loop never looks at __exiting.
WorkerLoopIgnoresExit ==
    /\ wpc = "loop"
    /\ wpc' = "tick"
    /\ UNCHANGED <<interpVars, robotVars, liveWorkers, evIdx, eventIndex, index,
                   overrideKillApp, evaluation, cpc, stopRet, loadRet, lastMsg>>
    /\ UNCHANGED getRet

\* Line 318: the test of "while not self.__exiting".
WorkerLoop ==
    /\ wpc = "loop"
    /\ wpc' = IF ~exiting THEN "tick" ELSE "destroy"
    /\ UNCHANGED <<interpVars, robotVars, liveWorkers, evIdx, eventIndex, index,
                   overrideKillApp, evaluation, cpc, stopRet, loadRet, lastMsg>>
    /\ UNCHANGED getRet

\* Lines 319-326: the tick gate, then the reset of currRunning.
WorkerTick ==
    /\ wpc = "tick"
    /\ \/ /\ wpc' = "loop"
          /\ UNCHANGED <<currRunning, evIdx>>
       \/ /\ currRunning' = <<>>
          /\ evIdx' = 0
          /\ wpc' = "for"
    /\ UNCHANGED <<mainThread, exiting, events, variables, robotVars, liveWorkers,
                   eventIndex, index, overrideKillApp, evaluation, cpc, stopRet,
                   loadRet, lastMsg>>
    /\ UNCHANGED getRet

\* The enumeration of the events without the exit test of line 327.
WorkerForNoExitTest ==
    /\ wpc = "for"
    /\ wpc' = IF evIdx >= Len(events) THEN "loop" ELSE "active"
    /\ UNCHANGED <<interpVars, robotVars, liveWorkers, evIdx, eventIndex, index,
                   overrideKillApp, evaluation, cpc, stopRet, loadRet, lastMsg>>
    /\ UNCHANGED getRet

\* Lines 326-327: the next event of the enumeration, and the exit test.
WorkerFor ==
    /\ wpc = "for"
    /\ wpc' = IF evIdx >= Len(events) \/ isExiting THEN "loop" ELSE "active"
    /\ UNCHANGED <<interpVars, robotVars, liveWorkers, evIdx, eventIndex, index,
                   overrideKillApp, evaluation, cpc, stopRet, loadRet, lastMsg>>
    /\ UNCHANGED getRet

\* Lines 339-344: the entry of __interpretEvent for the event at position e.
interpretEnter(e, override) ==
    /\ eventIndex' = e
    /\ index' = 0
    /\ overrideKillApp' = override
    /\ currRunning' = (e :> <<>>) @@ currRunning
    /\ wpc' = "while"

\* The return of __interpretEvent to its caller in __programThread: the for loop
\* goes on, or (after the destroy pass) the thread ends.
interpretReturn ==
    IF overrideKillApp
    THEN /\ wpc' = "done"
         /\ liveWorkers' = liveWorkers - 1
         /\ UNCHANGED evIdx
    ELSE /\ wpc' = "for"
         /\ evIdx' = evIdx + 1
         /\ UNCHANGED liveWorkers

\* Lines 328-329: event.isActive(), and the call of __interpretEvent.
WorkerActive ==
    /\ wpc = "active"
    /\ \E active \in BOOLEAN :
          IF active
          THEN /\ interpretEnter(evIdx, FALSE)
               /\ UNCHANGED evIdx
          ELSE /\ wpc' = "for"
               /\ evIdx' = evIdx + 1
               /\ UNCHANGED <<currRunning, eventIndex, index, overrideKillApp>>
    /\ UNCHANGED <<mainThread, exiting, events, variables, robotVars, liveWorkers,
                   evaluation, cpc, stopRet, loadRet, lastMsg>>
    /\ UNCHANGED getRet

\* __interpretEvent without the exit test of line 348.
InterpretLoopNoExitTest ==
    /\ wpc = "while"
    /\ IF index < Len(events[eventIndex + 1].commandList)
       THEN /\ currRunning' = [currRunning EXCEPT
                                  ![eventIndex] = Append(@, index)]
            /\ wpc' = "run"
            /\ UNCHANGED <<evIdx, liveWorkers>>
       ELSE /\ interpretReturn
            /\ UNCHANGED currRunning
    /\ UNCHANGED <<mainThread, exiting, events, variables, robotVars, eventIndex, index,
                   overrideKillApp, evaluation, cpc, stopRet, loadRet, lastMsg>>
    /\ UNCHANGED getRet

\* __interpretEvent whose exit test ignores overrideKillApp.
InterpretLoopNoOverride ==
    /\ wpc = "while"
    /\ IF /\ index < Len(events[eventIndex + 1].commandList)
          /\ ~isExiting
       THEN /\ currRunning' = [currRunning EXCEPT
                                  ![eventIndex] = Append(@, index)]
            /\ wpc' = "run"
            /\ UNCHANGED <<evIdx, liveWorkers>>
       ELSE /\ interpretReturn
            /\ UNCHANGED currRunning
    /\ UNCHANGED <<mainThread, exiting, events, variables, robotVars, eventIndex, index,
                   overrideKillApp, evaluation, cpc, stopRet, loadRet, lastMsg>>
    /\ UNCHANGED getRet

\* Lines 347-353: the loop test, the exit test, and the record in currRunning.
InterpretLoop ==
    /\ wpc = "while"
    /\ IF /\ index < Len(events[eventIndex + 1].commandList)
          /\ ~(isExiting /\ ~overrideKillApp)
       THEN /\ currRunning' = [currRunning EXCEPT
                                  ![eventIndex] = Append(@, index)]
            /\ wpc' = "run"
            /\ UNCHANGED <<evIdx, liveWorkers>>
       ELSE /\ interpretReturn
            /\ UNCHANGED currRunning
    /\ UNCHANGED <<mainThread, exiting, events, variables, robotVars, eventIndex, index,
                   overrideKillApp, evaluation, cpc, stopRet, loadRet, lastMsg>>
    /\ UNCHANGED getRet

\* __interpretEvent without the break on "Exit": the outcome is taken as Continue.
RunCommandIgnoresExit ==
    /\ wpc = "run"
    /\ LET commandList == events[eventIndex + 1].commandList
       IN  \E o \in commandList[index + 1].outcomes :
              /\ evaluation' = o
              /\ index' = nextCursor(index, o, commandList)
              /\ wpc' = "while"
              /\ UNCHANGED <<evIdx, liveWorkers>>
    /\ UNCHANGED <<interpVars, robotVars, eventIndex, overrideKillApp, cpc, stopRet,
                   loadRet, lastMsg>>
    /\ UNCHANGED getRet

\* Lines 354-372: command.run() returns, and the cursor moves.
RunCommand ==
    /\ wpc = "run"
    /\ LET commandList == events[eventIndex + 1].commandList
       IN  \E o \in commandList[index + 1].outcomes :
              /\ evaluation' = o
              /\ IF o = "Exit"
                 THEN /\ interpretReturn
                      /\ UNCHANGED index
                 ELSE /\ index' = nextCursor(index, o, commandList)
                      /\ wpc' = "while"
                      /\ UNCHANGED <<evIdx, liveWorkers>>
    /\ UNCHANGED <<interpVars, robotVars, eventIndex, overrideKillApp, cpc, stopRet,
                   loadRet, lastMsg>>
    /\ UNCHANGED getRet

\* The position of the first DestroyEvent of self.events, or Len(events) if none.
firstDestroy ==
    LET found == {e \in 0 .. Len(events) - 1 : events[e + 1].type = "DestroyEvent"}
    IN  IF found = {} THEN Len(events)
        ELSE CHOOSE e \in found : \A f \in found : e <= f

\* Lines 333-335: after the loop, the DestroyEvent pass if there is one.
WorkerDestroy ==
    /\ wpc = "destroy"
    /\ IF firstDestroy < Len(events)
       THEN /\ interpretEnter(firstDestroy, TRUE)
            /\ UNCHANGED liveWorkers
       ELSE /\ wpc' = "done"
            /\ liveWorkers' = liveWorkers - 1
            /\ UNCHANGED <<currRunning, eventIndex, index, overrideKillApp>>
    /\ UNCHANGED <<mainThread, exiting, events, variables, robotVars, evIdx,
                   evaluation, cpc, stopRet, loadRet, lastMsg>>
    /\ UNCHANGED getRet

\* A command in flight calls interpreter.setVariable(name, expression).
SetVariable(name, expression) ==
    /\ wpc = "run"
    /\ variables' = setVariable(name, expression, variables)
    /\ lastMsg' = IF crashes(expression, withDefault(name, variables))
                  THEN "evaluateExpression: crashed" ELSE lastMsg
    /\ UNCHANGED <<mainThread, exiting, events, currRunning, robotVars, liveWorkers,
                   workerVars, cpc, stopRet, loadRet>>
    /\ UNCHANGED getRet

\* getVariable that binds a missing name to its default, as setVariable does.
GetVariableCreates(name) ==
    /\ wpc = "run"
    /\ getRet' = [name |-> name] @@ getVariable(name, variables)
    /\ variables' = withDefault(name, variables)
    /\ UNCHANGED <<mainThread, exiting, events, currRunning, robotVars, liveWorkers,
                   workerVars, cpc, stopRet, loadRet, lastMsg>>

\* A command in flight calls interpreter.getVariable(name).
GetVariable(name) ==
    /\ wpc = "run"
    /\ getRet' = [name |-> name] @@ getVariable(name, variables)
    /\ UNCHANGED <<mainThread, exiting, events, currRunning, variables, robotVars,
                   liveWorkers, workerVars, cpc, stopRet, loadRet, lastMsg>>

(***************************************************************************)
(* The interpreter with its controller and its worker.                     *)
(***************************************************************************)
\* Interpreter.__init__; the robot and vision objects exist already.
Init ==
    /\ mainThread = "None"
    /\ exiting = TRUE
    /\ events = <<>>
    /\ currRunning = <<>>
    /\ variables = <<>>
    /\ robotExiting \in BOOLEAN
    /\ visionExiting = robotExiting
    /\ robotServos = "unset"
    /\ robotSpeed = 0
    /\ liveWorkers = 0
    /\ wpc = "none"
    /\ evIdx = 0
    /\ eventIndex = 0
    /\ index = 0
    /\ overrideKillApp = FALSE
    /\ evaluation = "-"
    /\ cpc = "idle"
    /\ stopRet = "-"
    /\ loadRet = "-"
    /\ lastMsg = "-"
    /\ getRet = NoRet

Next ==
    \/ \E script \in Scripts : LoadScript(script)
    \/ StartThread
    \/ EndThreadSignal
    \/ EndThreadJoin
    \/ WorkerLoop
    \/ WorkerTick
    \/ WorkerFor
    \/ WorkerActive
    \/ InterpretLoop
    \/ RunCommand
    \/ WorkerDestroy
    \/ \E name \in Names, expression \in Expressions : SetVariable(name, expression)

Spec ==
    Init /\ [][Next]_vars

(***************************************************************************)
(* One executor pass over one event: the worker has entered                *)
(* __interpretEvent for the only event of a loaded script.                 *)
(***************************************************************************)
RECURSIVE Depth(_, _)
\* The block depth after the first n commands of commandList.
Depth(commandList, n) ==
    IF n = 0 THEN 0
    ELSE Depth(commandList, n - 1)
         + (IF commandList[n].type = "StartBlockCommand" THEN 1
            ELSE IF commandList[n].type = "EndBlockCommand" THEN -1 ELSE 0)

WellNested(commandList) ==
    /\ \A n \in 0 .. Len(commandList) : Depth(commandList, n) >= 0
    /\ Depth(commandList, Len(commandList)) = 0

\* The (0-based) index of the EndBlock that closes the StartBlock at index s.
MatchingEnd(commandList, s) ==
    CHOOSE j \in s + 1 .. Len(commandList) - 1 :
        /\ Depth(commandList, j + 1) = Depth(commandList, s)
        /\ \A i \in s + 1 .. j - 1 : Depth(commandList, i + 1) > Depth(commandList, s)

SeqsUpTo(S, n) ==
    UNION {[1 .. m -> S] : m \in 0 .. n}

\* Every command list of up to MaxLen commands; each command may return any outcome.
GenericLists ==
    SeqsUpTo({Command(t, Outcomes) : t \in CommandTypes}, MaxLen)

\* Well-nested bodies of commands that return Continue.
Bodies ==
    {b \in SeqsUpTo({Command("Command", {"Continue"}), StartBlock, EndBlock}, MaxBody) :
        WellNested(b)}

\* [Cond, StartBlock, body1, EndBlock, Else, StartBlock, body2, EndBlock, rest]
ElseLists ==
    {<<Command("Command", {o}), StartBlock>> \o b1 \o <<EndBlock, Else, StartBlock>>
        \o b2 \o <<EndBlock>> \o rest :
        o \in {"Continue", "Skip"}, b1 \in Bodies, b2 \in Bodies, rest \in Bodies}

InitExec ==
    /\ mainThread = "Thread"
    /\ exiting = FALSE
    /\ \E commandList \in GenericLists \cup ElseLists :
          events = <<Event("InitEvent", commandList)>>
    /\ currRunning = (0 :> <<>>)
    /\ variables = <<>>
    /\ robotExiting = FALSE
    /\ visionExiting = FALSE
    /\ robotServos = "all"
    /\ robotSpeed = DefaultSpeed
    /\ liveWorkers = 1
    /\ wpc = "while"
    /\ evIdx = 0
    /\ eventIndex = 0
    /\ index = 0
    /\ overrideKillApp = FALSE
    /\ evaluation = "-"
    /\ cpc = "idle"
    /\ stopRet = "-"
    /\ loadRet = "returned"
    /\ lastMsg = "loadScript errors"
    /\ getRet = NoRet

NextExec ==
    \/ InterpretLoop
    \/ RunCommand

SpecExec ==
    InitExec /\ [][NextExec]_vars

(***************************************************************************)
(* Properties of the thread lifecycle, checked under Spec.                 *)
(***************************************************************************)

\* C1: at most one worker thread exists at any time, a worker is spawned only
\* while none is attached, and a start issued while a worker is attached (also
\* after a stop whose join timed out) changes neither the exit flag, the attached
\* worker, RunStatus, nor the robot/vision exit flags, servos and speed.
C1_OneWorker ==
    /\ [](liveWorkers \in {0, 1} /\ (liveWorkers = 1 => mainThread = "Thread"))
    /\ [][/\ liveWorkers' > liveWorkers => mainThread = "None"
          /\ (StartThread /\ mainThread # "None") =>
                UNCHANGED <<exiting, mainThread, currRunning, robotVars, liveWorkers,
                            workerVars>>]_vars

\* A start was rejected after a stop whose join timed out, the worker still alive.
C1_Witness ==
    /\ lastMsg = "startThread: already running"
    /\ stopRet = "False"
    /\ mainThread = "Thread"
    /\ liveWorkers = 1

C3_StuckStop ==
    [][(cpc = "join" /\ cpc' = "idle" /\ wpc # "done") =>
          /\ stopRet' = "False"
          /\ mainThread = "Thread"
          /\ mainThread' = "Thread"
          /\ events' = events
          /\ variables' = variables
          /\ exiting'
          /\ robotExiting'
          /\ visionExiting'
          /\ isRunning']_vars

\* A stop has just returned false with events loaded and variables set.
C3_Witness ==
    /\ stopRet = "False"
    /\ lastMsg = "endThread: did not close"
    /\ cpc = "idle"
    /\ mainThread = "Thread"
    /\ liveWorkers = 1
    /\ events # <<>>
    /\ "x" \in DOMAIN variables
    /\ exiting
    /\ robotExiting

\* C4: the exit flag goes from true back to false only in a start that is
\* accepted, that is one made while no worker is attached; while a worker is
\* attached the flag can only go from false to true.
C4_ExitingMonotonic ==
    [][(exiting /\ ~exiting') =>
          /\ mainThread = "None"
          /\ mainThread' = "Thread"
          /\ liveWorkers = 0]_vars

\* A second run was started after a clean stop: the flag was reset.
C4_Witness ==
    /\ stopRet = "True"
    /\ mainThread = "Thread"
    /\ ~exiting

\* C5: getStatus() returns false exactly when isRunning() is false, and the live
\* RunStatus mapping whenever isRunning() is true.
C5_StatusIffRunning ==
    /\ getStatus.isFalse <=> ~isRunning
    /\ isRunning => getStatus = [isFalse |-> FALSE, status |-> currRunning]

(***************************************************************************)
(* Properties of the executor pass and of the scan.                        *)
(***************************************************************************)
\* The command list of the event the worker is interpreting.
CurrentList ==
    events[eventIndex + 1].commandList

\* The worker is at the loop test right after the command at index k returned.
JustRan(k) ==
    /\ wpc = "while"
    /\ eventIndex \in DOMAIN currRunning
    /\ currRunning[eventIndex] # <<>>
    /\ currRunning[eventIndex][Len(currRunning[eventIndex])] = k

\* The command indices recorded for event e.
Ran(e) ==
    {currRunning[e][i] : i \in 1 .. Len(currRunning[e])}

\* C6: in a well-nested command list, when the command at k returns Skip and the
\* command at k+1 is a StartBlock, the cursor lands right after the EndBlock that
\* matches that StartBlock, whatever command stands there.
C6_SkipOverBlock ==
    \A k \in 0 .. Len(CurrentList) - 2 :
        (/\ JustRan(k)
         /\ evaluation = "Skip"
         /\ WellNested(CurrentList)
         /\ CurrentList[k + 2].type = "StartBlockCommand")
        => index = MatchingEnd(CurrentList, k + 1) + 1

\* C7: for every command list and every k whose successor exists and is not a
\* StartBlock the scan from k returns k, and a command at k that returns Skip
\* moves the cursor to k+1.
C7_FlatSkip ==
    \A k \in 0 .. Len(CurrentList) - 2 :
        CurrentList[k + 2].type # "StartBlockCommand" =>
            /\ getNextIndex(k, CurrentList) = k
            /\ (JustRan(k) /\ evaluation = "Skip") => index = k + 1

\* [If(false), A, B]: the If returned Skip and the cursor is on A.
C7_Witness ==
    /\ Len(CurrentList) = 3
    /\ \A i \in 1 .. 3 : CurrentList[i].type = "Command"
    /\ JustRan(0)
    /\ evaluation = "Skip"
    /\ index = 1

\* The list has the shape [Cond, StartBlock, body1, EndBlock, Else, StartBlock,
\* body2, EndBlock, rest] with well-nested bodies and rest that hold no Else, and
\* every command but Cond returns Continue.
ElseShaped(commandList) ==
    /\ Len(commandList) >= 6
    /\ WellNested(commandList)
    /\ commandList[1].type = "Command"
    /\ commandList[2].type = "StartBlockCommand"
    /\ \A i \in 2 .. Len(commandList) : commandList[i].outcomes = {"Continue"}
    /\ LET e1 == MatchingEnd(commandList, 1)
       IN  /\ e1 + 2 < Len(commandList)
           /\ commandList[e1 + 2].type = "ElseCommand"
           /\ commandList[e1 + 3].type = "StartBlockCommand"
           /\ \A i \in 1 .. Len(commandList) :
                 i # e1 + 2 => commandList[i].type # "ElseCommand"

\* C8: one pass over an Else-shaped list: with Cond returning Continue it executes
\* the commands of body1, neither the Else nor any command of body2, and then
\* rest; with Cond returning Skip it executes no command of body1, the commands
\* of body2, and then rest.
C8_ElseSuppression ==
    (/\ wpc = "for"
     /\ evIdx = eventIndex + 1
     /\ eventIndex \in DOMAIN currRunning
     /\ ElseShaped(CurrentList))
    => LET e1    == MatchingEnd(CurrentList, 1)
           e2    == MatchingEnd(CurrentList, e1 + 2)
           body1 == 2 .. e1 - 1
           body2 == e1 + 3 .. e2 - 1
           rest  == e2 + 1 .. Len(CurrentList) - 1
           ran   == Ran(eventIndex)
       IN  /\ CurrentList[1].outcomes = {"Continue"} =>
                /\ body1 \subseteq ran
                /\ ran \cap (body2 \cup {e1 + 1}) = {}
                /\ rest \subseteq ran
           /\ CurrentList[1].outcomes = {"Skip"} =>
                /\ ran \cap body1 = {}
                /\ body2 \subseteq ran
                /\ rest \subseteq ran

(***************************************************************************)
(* Properties of the tick and of the VariableStore, checked under Spec.    *)
(***************************************************************************)

\* C9: a command that returns Exit ends the pass over its event at once: nothing
\* more is recorded or run for that event, the for loop of the tick goes on with
\* the next event, no event is handed to the executor twice in a tick, and every
\* pass (so the event's pass of the next tick) starts at command index 0.
C9_ExitEndsPass ==
    /\ [](wpc \in {"for", "active"} => \A e \in DOMAIN currRunning : e < evIdx)
    /\ [][/\ (wpc = "run" /\ wpc' # "run" /\ evaluation' = "Exit") =>
                /\ wpc' # "while"
                /\ currRunning' = currRunning
                /\ ~overrideKillApp => (wpc' = "for" /\ evIdx' = evIdx + 1)
          /\ (wpc' = "while" /\ wpc \notin {"while", "run"}) =>
                /\ index' = 0
                /\ currRunning'[eventIndex'] = <<>>
          /\ \A e \in DOMAIN currRunning \cap DOMAIN currRunning' :
                (wpc \notin {"while", "run"} \/ eventIndex # e) =>
                    currRunning'[e] \in {currRunning[e], <<>>}]_vars

\* A command inside a block returned Exit: the pass is over, the commands behind
\* it were not run, and the for loop stands at the next event.
C9_Witness ==
    /\ wpc = "for"
    /\ evaluation = "Exit"
    /\ evIdx = eventIndex + 1
    /\ eventIndex \in DOMAIN currRunning
    /\ Len(currRunning[eventIndex]) = 3
    /\ Len(CurrentList) = 4
    /\ CurrentList[2].type = "StartBlockCommand"

\* C10: a setVariable whose expression fails to evaluate leaves the binding of
\* name at its previous value (at the default 0 when name was not bound), and
\* changes no other binding.
C10_FailedSetKeepsValue ==
    [][\A name \in Names, expression \in Expressions :
          LET created == withDefault(name, variables)
          IN  (/\ SetVariable(name, expression)
               /\ ~evaluateExpression(expression, created).success)
              => variables' = created]_vars

(***************************************************************************)
(* The VariableStore under the calls of a command in flight: the worker is *)
(* inside command.run() of the only command of a loaded script, right      *)
(* after construction (empty store) or after a clean stop (default store). *)
(***************************************************************************)
\* The names a command reads: assigned or not, of the safe list or not.
ProbeNames ==
    {"x", "y", "pi", "abs"}

InitStore ==
    /\ mainThread = "Thread"
    /\ exiting = FALSE
    /\ events = <<Event("InitEvent", <<Command("Command", {"Continue"})>>)>>
    /\ currRunning = (0 :> <<0>>)
    /\ variables \in {<<>>, DefaultVariables}
    /\ robotExiting = FALSE
    /\ visionExiting = FALSE
    /\ robotServos = "all"
    /\ robotSpeed = DefaultSpeed
    /\ liveWorkers = 1
    /\ wpc = "run"
    /\ evIdx = 0
    /\ eventIndex = 0
    /\ index = 0
    /\ overrideKillApp = FALSE
    /\ evaluation = "-"
    /\ cpc = "idle"
    /\ stopRet \in {"-", "True"}
    /\ stopRet = "True" <=> variables = DefaultVariables
    /\ loadRet = "returned"
    /\ lastMsg = "loadScript errors"
    /\ getRet = NoRet

\* The names a command assigns.
StoreNames ==
    {"x", "y"}

NextStore ==
    \/ \E name \in StoreNames, expression \in Expressions : SetVariable(name, expression)
    \/ \E name \in ProbeNames : GetVariable(name)

SpecStore ==
    InitStore /\ [][NextStore]_vars

(***************************************************************************)
(* Properties of the VariableStore, checked under SpecStore.               *)
(***************************************************************************)

\* C11: getVariable is a read-only probe: it leaves the VariableStore unchanged;
\* for a name that is not bound it returns (0, false) and the name is still not
\* bound afterwards; for a bound name it returns (its value, true).
C11_GetIsReadOnly ==
    [][/\ \A name \in ProbeNames : GetVariable(name) => variables' = variables
       /\ getRet' # getRet =>
             /\ variables' = variables
             /\ getRet'.name \notin DOMAIN variables =>
                   /\ getRet'.value = Num(0)
                   /\ ~getRet'.success
                   /\ getRet'.name \notin DOMAIN variables'
             /\ getRet'.name \in DOMAIN variables =>
                   /\ getRet'.value = variables[getRet'.name]
                   /\ getRet'.success]_vars

\* getVariable("y") returned (0, false) with other names set, and y is not bound.
C11_Witness ==
    /\ getRet = [name |-> "y", value |-> Num(0), success |-> FALSE]
    /\ "y" \notin DOMAIN variables
    /\ "x" \in DOMAIN variables

(***************************************************************************)
(* Properties of loadScript and of the constructed interpreter, checked    *)
(* under Spec.                                                             *)
(***************************************************************************)

\* C12: loadScript populates Events fresh: after loadScript of a well-formed
\* script with N event descriptors, in any interpreter state, the Events list
\* holds exactly the N events of the script, in descriptor order; the events of
\* an earlier load are not merged in.
C12_LoadIsFresh ==
    [][\A script \in Scripts :
          (LoadScript(script) /\ ~loadEvents(script).raised)
              => events' = loadEvents(script).events]_vars

\* C13: loadScript never raises: for every script, including one with a typeTag
\* that resolves to no registered variant, the call returns the error map.
C13_LoadNeverRaises ==
    loadRet # "raised"

(***************************************************************************)
(* Properties of the worker's shutdown and of its ticks, checked under     *)
(* Spec.                                                                   *)
(***************************************************************************)

\* C14: shutdown cleanup ordering: once the worker has observed the exit flag and
\* left the tick loop, if a destroy event is loaded it makes exactly one executor
\* pass over the first such event with cancellation suppressed, so its commands
\* run under the Continue/Skip/Exit rules although the exit flag is true; the
\* pass comes before the worker terminates, hence before a stop returns true and
\* before Events are cleared. With no destroy event no command runs after the
\* loop exits.
C14_DestroyPass ==
    [][/\ (wpc = "destroy" /\ wpc' # "destroy") =>
             IF firstDestroy < Len(events)
             THEN /\ wpc' = "while"
                  /\ overrideKillApp'
                  /\ eventIndex' = firstDestroy
                  /\ index' = 0
                  /\ events[firstDestroy + 1].type = "DestroyEvent"
             ELSE /\ wpc' = "done"
                  /\ currRunning' = currRunning
       /\ (overrideKillApp' /\ ~overrideKillApp) => wpc = "destroy"
       /\ (overrideKillApp' /\ wpc' \in {"while", "run"}) => exiting'
       /\ (wpc = "while" /\ overrideKillApp /\ wpc' # "while") =>
             wpc' = IF index < Len(CurrentList) THEN "run" ELSE "done"
       /\ (wpc = "run" /\ overrideKillApp /\ wpc' # "run") =>
             IF evaluation' = "Exit"
             THEN wpc' = "done"
             ELSE /\ wpc' = "while"
                  /\ index' = nextCursor(index, evaluation', CurrentList)
       /\ (wpc # "done" /\ wpc' = "done") =>
             /\ exiting
             /\ mainThread = "Thread"
             /\ events' = events
             /\ firstDestroy < Len(events) =>
                   /\ overrideKillApp
                   /\ eventIndex = firstDestroy
                   /\ eventIndex \in DOMAIN currRunning
       /\ (wpc = "done" /\ wpc' # "done") => wpc' = "none"
       /\ (cpc = "join" /\ cpc' = "idle" /\ stopRet' = "True") => wpc = "done"
       /\ (events # <<>> /\ events' = <<>>) => wpc = "done"]_vars

\* A command of the destroy event is in flight while the exit flag is true and
\* the stop is waiting in its join.
C14_Witness ==
    /\ wpc = "run"
    /\ overrideKillApp
    /\ exiting
    /\ events[eventIndex + 1].type = "DestroyEvent"
    /\ cpc = "join"

\* C15: a freshly constructed Interpreter is in the stopped state that a clean
\* stop produces: no events, no worker, exiting true (isRunning() false), and a
\* VariableStore holding the default bindings, equal to the store after a start
\* followed by a successful stop.
C15_FreshIsStopped ==
    (stopRet = "-" /\ loadRet = "-" /\ lastMsg = "-" /\ wpc = "none") =>
        /\ events = <<>>
        /\ mainThread = "None"
        /\ exiting
        /\ ~isRunning
        /\ variables = DefaultVariables

\* C16: within one tick the scheduler hands events to the executor in strictly
\* increasing load index, each event at most once; an event whose isActive() is
\* false in that tick has none of its commands executed; and once the exit flag
\* is seen set at an event's check, neither that event nor a later event of the
\* tick is handed to the executor.
C16_TickOrder ==
    [][/\ (wpc = "active" /\ wpc' = "while") =>
             /\ eventIndex' = evIdx
             /\ evIdx < Len(events)
             /\ ~overrideKillApp'
             /\ \A e \in DOMAIN currRunning : e < eventIndex'
             /\ currRunning'[eventIndex'] = <<>>
       /\ (wpc # "while" /\ wpc' = "while" /\ ~overrideKillApp') =>
             wpc \in {"active", "run"}
       /\ (wpc = "active" /\ wpc' = "for") =>
             /\ currRunning' = currRunning
             /\ evIdx \notin DOMAIN currRunning'
             /\ evIdx' = evIdx + 1
       /\ (wpc \in {"for", "active", "while", "run"} /\ ~overrideKillApp
              /\ wpc' \in {"for", "active", "while", "run"}) =>
             /\ evIdx' \in {evIdx, evIdx + 1}
             /\ \A e \in DOMAIN currRunning' : e <= evIdx
       /\ (wpc = "for" /\ isExiting /\ wpc' # "for") => wpc' = "loop"
       /\ (wpc = "loop" /\ exiting /\ wpc' # "loop") => wpc' = "destroy"]_vars

\* The tick was cut after its first event: the exit flag was seen at the check of
\* the second event, which was not handed to the executor.
C16_Witness ==
    /\ wpc = "loop"
    /\ exiting
    /\ Len(events) = 2
    /\ evIdx = 1
    /\ DOMAIN currRunning = {0}

\* C17: cooperative cancellation at command granularity: with stop running
\* concurrently with the worker, once stop has set the exit flag the only command
\* outside the destroy pass still to run is the one whose exit test had passed
\* when the flag was set; every command started later belongs to the destroy
\* pass. A command in flight is never pre-empted: it ends by its own return.
C17_CooperativeCancel ==
    [][/\ (exiting /\ wpc # "run" /\ wpc' = "run") =>
             /\ overrideKillApp'
             /\ events[eventIndex' + 1].type = "DestroyEvent"
       /\ (exiting /\ ~overrideKillApp /\ wpc = "while" /\ wpc' # "while") =>
             wpc' = "for"
       /\ (wpc = "run" /\ wpc' # "run") =>
             /\ evaluation' \in CurrentList[index + 1].outcomes
             /\ exiting' = exiting
             /\ cpc' = cpc
       /\ (wpc = "run" /\ exiting' # exiting) =>
             /\ exiting'
             /\ wpc' = "run"
             /\ UNCHANGED <<workerVars, currRunning, liveWorkers>>]_vars

\* The stop has set the exit flag and waits in its join while a command of the
\* tick, whose exit test had passed before, is still in flight.
C17_Witness ==
    /\ exiting
    /\ cpc = "join"
    /\ wpc = "run"
    /\ ~overrideKillApp
    /\ events[eventIndex + 1].type = "InitEvent"

(***************************************************************************)
(* The interpreter with a worker thread that is scheduled fairly and whose *)
(* timer, isActive() and command.run() calls return: a step of             *)
(* __programThread that can be taken is eventually taken. Nothing is       *)
(* assumed of the controller.                                              *)
(***************************************************************************)
\* The steps of the worker thread.
Worker ==
    \/ WorkerLoop
    \/ WorkerTick
    \/ WorkerFor
    \/ WorkerActive
    \/ InterpretLoop
    \/ RunCommand
    \/ WorkerDestroy

SpecFair ==
    Init /\ [][Next]_vars /\ WF_vars(Worker)

\* C18: liveness of shutdown: with a fairly scheduled worker whose run() and
\* isActive() calls return, once stop has set the exit flag the worker leaves the
\* tick loop, completes the destroy pass and terminates; a terminated worker
\* stays terminated until a stop finds it, and the stop that finds it (the one
\* that waited long enough, or a later one after a stop that timed out) returns
\* true and completes the cleanup.
C18_ShutdownLiveness ==
    /\ (exiting /\ mainThread = "Thread") ~> (wpc = "done")
    /\ [][/\ wpc = "done" => wpc' \in {"done", "none"}
          /\ (cpc = "join" /\ cpc' = "idle" /\ wpc = "done") =>
                /\ stopRet' = "True"
                /\ mainThread' = "None"
                /\ events' = <<>>
                /\ variables' = DefaultVariables
                /\ ~robotExiting' /\ ~visionExiting']_vars

\* A stop timed out and returned false; the worker has terminated since, and a
\* later stop is waiting in its join.
C18_Witness ==
    /\ stopRet = "False"
    /\ wpc = "done"
    /\ cpc = "join"
    /\ exiting
    /\ DOMAIN currRunning # {}

\* C20: stop without a worker: a stop call made while no worker is attached
\* (before any start, or after a clean stop) sets the exit flag to true, does not
\* return true, and leaves everything else unchanged: the Events loaded so far
\* are not dropped, the VariableStore is not reset, and the robot and vision
\* exit flags are not touched.
C20_StopWithoutWorker ==
    [][(EndThreadSignal /\ mainThread = "None") =>
          /\ exiting'
          /\ stopRet' # "True"
          /\ cpc' = "idle"
          /\ UNCHANGED <<events, variables, robotVars, mainThread, currRunning,
                         liveWorkers, workerVars, loadRet, getRet>>]_vars

\* A stop without a worker has returned: the events loaded before it are still
\* there, the store is still the empty one of the constructor, and the exit
\* flags of the robot and the vision are still clear.
C20_Witness ==
    /\ stopRet = "None"
    /\ lastMsg = "endThread: closing"
    /\ mainThread = "None"
    /\ exiting
    /\ events # <<>>
    /\ variables = <<>>
    /\ ~robotExiting
    /\ ~visionExiting

(***************************************************************************)
(* Progress of the executor's cursor, checked under SpecExec.              *)
(***************************************************************************)

\* C19: cursor progress: for every command list, well nested or not, and every
\* index k in range, the skip scan from k returns an index r with
\* k <= r <= last valid index, so the cursor strictly increases at each
\* iteration of a pass; within one pass no command index is executed twice, the
\* sequence recorded in currRunning for the event is strictly increasing, and the
\* pass executes at most len(commandList) commands.
C19_CursorProgress ==
    LET ran == currRunning[eventIndex]
    IN  /\ \A k \in 0 .. Len(CurrentList) - 1 :
              /\ getNextIndex(k, CurrentList) \in k .. Len(CurrentList) - 1
              /\ \A o \in Outcomes \ {"Exit"} :
                    nextCursor(k, o, CurrentList) \in k + 1 .. Len(CurrentList)
        /\ \A i, j \in 1 .. Len(ran) : i < j => ran[i] < ran[j]
        /\ \A i \in 1 .. Len(ran) : ran[i] \in 0 .. Len(CurrentList) - 1
        /\ Len(ran) <= Len(CurrentList)
        /\ (wpc = "run") => (ran # <<>> /\ index = ran[Len(ran)])
        /\ (wpc = "while" /\ ran # <<>>) => index > ran[Len(ran)]
        /\ index \in 0 .. Len(CurrentList)

\* On a list that is not well nested a Skip found no end of block: the scan fell
\* back to the last index and the pass is over, after two commands.
C19_Witness ==
    /\ wpc = "while"
    /\ evaluation = "Skip"
    /\ index = Len(CurrentList)
    /\ ~WellNested(CurrentList)
    /\ currRunning[eventIndex] = <<0, 1>>
    /\ Len(CurrentList) = 4

====
